---------------------------- MODULE Spec2Model ----------------------------
(***************************************************************************)
(* A model of src/data/yxzt.py: get_system_status_text (the system status  *)
(* report, whose disk section filters, deduplicates and sorts the mounted  *)
(* filesystems) and generate_status_image_local_path (its caller).         *)
(*                                                                         *)
(* Strings are TLA+ strings; len(), startswith(), "in" and "<" on them are *)
(* computed character by character (Len, SubSeq and the code-point order   *)
(* of the characters that occur).  A report line is a record [kind, arg]:  *)
(* kind names the f-string of the source that produced the line and arg    *)
(* is the mount point a disk line shows ("" for every other line).         *)
(***************************************************************************)
EXTENDS Integers, Sequences, FiniteSets, TLC

VARIABLES
    mounts,            \* platform: what psutil.disk_partitions() returns
    disk_usage,        \* platform: psutil.disk_usage, per mount point
    path_exists,       \* platform: os.path.exists, per mount point
    pc,                \* position in get_system_status_text / its caller
    output_lines,      \* output_lines (line 61)
    partitions,        \* partitions (line 92)
    idx,               \* number of elements of partitions the for loop has consumed
    real_partitions,   \* real_partitions (line 95)
    seen_mount_stats,  \* seen_mount_stats (line 96)
    result,            \* what generate_status_image_local_path returned
    lookups,           \* history: the loop iterations that called psutil.disk_usage
    raised_by          \* history: the platform call whose exception left the function

vars == << mounts, disk_usage, path_exists, pc, output_lines, partitions, idx,
           real_partitions, seen_mount_stats, result, lookups, raised_by >>

---------------------------------------------------------------------------
(* Bounds of the model. *)

\* the longest mount table the platform returns
MaxMounts == 3
\* the longest mount table of the specification of the filtering stage
MaxFilterMounts == 2

---------------------------------------------------------------------------
(* Strings. *)

\* The characters that occur in the model's strings, in code-point order.
CodePointOrder == "-./0123456789_abcdefghijklmnopqrstuvwxyz"

Ord(c) == CHOOSE i \in 1..Len(CodePointOrder) : SubSeq(CodePointOrder, i, i) = c

CharAt(s, i) == SubSeq(s, i, i)

\* s.startswith(prefix)
StartsWith(s, prefix) ==
    /\ Len(s) >= Len(prefix)
    /\ SubSeq(s, 1, Len(prefix)) = prefix

\* sub in s
Contains(s, sub) ==
    \E i \in 1..(Len(s) - Len(sub) + 1) : SubSeq(s, i, i + Len(sub) - 1) = sub

\* a < b for Python str: the first differing character decides, a proper
\* prefix is smaller.
RECURSIVE StrLessFrom(_, _, _)
StrLessFrom(a, b, i) ==
    IF i > Len(b) THEN FALSE
    ELSE IF i > Len(a) THEN TRUE
    ELSE IF CharAt(a, i) = CharAt(b, i) THEN StrLessFrom(a, b, i + 1)
    ELSE Ord(CharAt(a, i)) < Ord(CharAt(b, i))

StrLess(a, b) == StrLessFrom(a, b, 1)

---------------------------------------------------------------------------
(* The platform's values. *)

\* 1024**3
GiB == 1073741824

\* A byte count g * 1024**3 + r with 0 <= r < 1024**3.  Python's int is
\* unbounded; the two parts keep every count of the model exact.
Bytes(g, r) == [gib |-> g, rem |-> r]

\* a < b on byte counts
BytesLess(a, b) == a.gib < b.gib \/ (a.gib = b.gib /\ a.rem < b.rem)

Part(device, mountpoint, fstype) ==
    [device |-> device, mountpoint |-> mountpoint, fstype |-> fstype]

\* psutil.disk_usage(path): a usage sample, or an exception.
Usage(total, used) == [ok |-> TRUE, total |-> total, used |-> used]
LookupError == [ok |-> FALSE, total |-> Bytes(0, 0), used |-> Bytes(0, 0)]

BoundedSeq(S, n) == UNION { [1..k -> S] : k \in 0..n }

MountPointsOf(parts) == { parts[i].mountpoint : i \in 1..Len(parts) }

---------------------------------------------------------------------------
(* The report's lines. *)

Line(kind) == [kind |-> kind, arg |-> ""]
DiskLine(kind, mountpoint) == [kind |-> kind, arg |-> mountpoint]

SystemInfoLines ==
    << Line("system_header"), Line("bar"), Line("uptime"), Line("python_version"),
       Line("os"), Line("hostname"), Line("blank") >>

LoadLines ==
    << Line("load_header"), Line("load1"), Line("load5"), Line("load15") >>

LoadUnavailableLines == << Line("load_header"), Line("load_unavailable") >>

CpuCoresLines == << Line("cpu_cores"), Line("blank") >>

CpuInfoLines(freq) ==
    << Line("cpu_header"), Line("cpu_model"), Line("cores"),
       Line(IF freq = "none" THEN "cpu_freq_na" ELSE "cpu_freq"),
       Line("cpu_percent"), Line("process_count"), Line("blank") >>

MemoryLines(swap) ==
    << Line("memory_header"), Line("mem_total"), Line("mem_used"),
       Line("mem_available"),
       Line(IF swap = "enabled" THEN "swap" ELSE "swap_disabled"),
       Line("blank") >>

DiskHeaderLine == Line("disk_header")
NoDiskLine == Line("no_disk")
SeparatorLine == Line("bar")
ClosingLine == Line("closing")

\* The four lines of one entry of real_partitions.
EntryLines(p) ==
    << DiskLine("mount", p[1]), DiskLine("disk_total", p[1]),
       DiskLine("disk_used", p[1]), DiskLine("disk_free", p[1]) >>

\* Lines 140-151 with the separator of line 143 written after every entry
\* (the test of line 142 dropped, the append moved behind the extend).
RECURSIVE DiskLinesTrailingSeparator(_)
DiskLinesTrailingSeparator(real) ==
    IF real = << >> THEN << Line("no_disk") >>
    ELSE IF Len(real) = 1
         THEN << DiskLine("mount", real[1][1]), DiskLine("disk_total", real[1][1]),
                 DiskLine("disk_used", real[1][1]), DiskLine("disk_free", real[1][1]),
                 Line("bar") >>
         ELSE DiskLinesTrailingSeparator(SubSeq(real, 1, Len(real) - 1))
                  \o DiskLinesTrailingSeparator(<< real[Len(real)] >>)

\* Lines 140-151: the lines of the disk section after its header.
RECURSIVE DiskLines(_)
DiskLines(real) ==
    IF real = << >> THEN << NoDiskLine >>
    ELSE IF Len(real) = 1 THEN EntryLines(real[1])
    ELSE DiskLines(SubSeq(real, 1, Len(real) - 1))
             \o << SeparatorLine >> \o EntryLines(real[Len(real)])

\* "\n".join(status_lines): the lines with a newline between consecutive ones.
RECURSIVE Join(_)
Join(lines) ==
    IF lines = << >> THEN << >>
    ELSE IF Len(lines) = 1 THEN << lines[1] >>
    ELSE Join(SubSeq(lines, 1, Len(lines) - 1)) \o << Line("newline"), lines[Len(lines)] >>

---------------------------------------------------------------------------
(* The disk loop. *)

\* The condition of the first continue without line 104.
IsSkippedProcKept(part) ==
    \/ Contains(part.device, "loop")
    \/ part.fstype \in {"squashfs", "tmpfs", "iso9660"}
    \/ ~ path_exists[part.mountpoint]
    \/ StartsWith(part.mountpoint, "/etc/")
    \/ StartsWith(part.mountpoint, "/sys/")
    \/ StartsWith(part.mountpoint, "/run/")
    \/ StartsWith(part.mountpoint, "/dev/")

\* Lines 100-107: the condition of the first continue.
IsSkipped(part) ==
    \/ Contains(part.device, "loop")
    \/ part.fstype \in {"squashfs", "tmpfs", "iso9660"}
    \/ ~ path_exists[part.mountpoint]
    \/ StartsWith(part.mountpoint, "/etc/")
    \/ StartsWith(part.mountpoint, "/proc/")
    \/ StartsWith(part.mountpoint, "/sys/")
    \/ StartsWith(part.mountpoint, "/run/")
    \/ StartsWith(part.mountpoint, "/dev/")

\* The threshold compared with <=.
AtOrBelowThreshold(usage) ==
    BytesLess(usage.total, Bytes(1, 0)) \/ usage.total = Bytes(1, 0)

\* The threshold taken as 1024**4.
BelowTiB(usage) == BytesLess(usage.total, Bytes(1024, 0))

\* Line 114.
BelowThreshold(usage) == BytesLess(usage.total, Bytes(1, 0))

\* Line 119.
KeyOf(usage) == << usage.total, usage.used >>

\* The comparison of line 122 reversed.
IsLonger(mountpoint, recorded) == Len(mountpoint) > Len(recorded)

\* The comparison of line 122 with <=.
IsNotLonger(mountpoint, recorded) == Len(mountpoint) <= Len(recorded)

\* Line 122.
IsShorter(mountpoint, recorded) == Len(mountpoint) < Len(recorded)

\* Lines 124-128: the first entry whose mount point is the recorded one is
\* overwritten and the map updated; with no such entry nothing changes.
ReplaceRecorded(st, key, mountpoint, usage) ==
    LET hits == { i \in 1..Len(st.real) : st.real[i][1] = st.seen[key] }
    IN  IF hits = {} THEN st
        ELSE LET i == CHOOSE h \in hits : \A g \in hits : h <= g
             IN  [real |-> [st.real EXCEPT ![i] = << mountpoint, usage >>],
                  seen |-> [st.seen EXCEPT ![key] = mountpoint]]

\* AppendNew without line 131: the key is not recorded.
AppendNewUnrecorded(st, key, mountpoint, usage) ==
    [real |-> Append(st.real, << mountpoint, usage >>), seen |-> st.seen]

\* Lines 130-131.
AppendNew(st, key, mountpoint, usage) ==
    [real |-> Append(st.real, << mountpoint, usage >>),
     seen |-> [k \in DOMAIN st.seen \cup {key} |->
                   IF k = key THEN mountpoint ELSE st.seen[k]]]

\* Lines 114-131: the try block after a lookup that returned `r`.
Record(st, mountpoint, r) ==
    LET usage == [total |-> r.total, used |-> r.used]
        key == KeyOf(usage)
    IN  IF BelowThreshold(usage) THEN st
        ELSE IF key \in DOMAIN st.seen
             THEN IF IsShorter(mountpoint, st.seen[key])
                  THEN ReplaceRecorded(st, key, mountpoint, usage)
                  ELSE st
             ELSE AppendNew(st, key, mountpoint, usage)

\* Without lines 133-134 the exception leaves the function.
NoExceptHandler == "raised"

\* Lines 133-134: where the loop goes when the try block raised.
ExceptHandler == "loop"

\* Lines 98-134: one iteration of the for loop on `part` with the lists `st`.
Body(st, part) ==
    IF IsSkipped(part) THEN st
    ELSE LET r == disk_usage[part.mountpoint]
         IN  IF r.ok THEN Record(st, part.mountpoint, r) ELSE st

\* The lists after the loop has run over `parts`.
RECURSIVE RunLoop(_)
RunLoop(parts) ==
    IF parts = << >> THEN [real |-> << >>, seen |-> << >>]
    ELSE Body(RunLoop(SubSeq(parts, 1, Len(parts) - 1)), parts[Len(parts)])

\* Line 137: list.sort(key=lambda x: x[0]) is stable: an element goes after
\* every element whose key is not greater.
RECURSIVE InsertByMount(_, _)
InsertByMount(sorted, e) ==
    IF sorted = << >> THEN << e >>
    ELSE IF StrLess(e[1], sorted[Len(sorted)][1])
         THEN Append(InsertByMount(SubSeq(sorted, 1, Len(sorted) - 1), e),
                     sorted[Len(sorted)])
         ELSE Append(sorted, e)

\* Line 137 left out.
Unsorted(s) == s

RECURSIVE SortByMount(_)
SortByMount(s) ==
    IF s = << >> THEN << >>
    ELSE InsertByMount(SortByMount(SubSeq(s, 1, Len(s) - 1)), s[Len(s)])

---------------------------------------------------------------------------
(* The steps of get_system_status_text. *)

\* A platform call that raised: the exception leaves get_system_status_text
\* and generate_status_image_local_path, which catch nothing.
Raise(call) ==
    /\ pc' = "raised"
    /\ raised_by' = call
    /\ UNCHANGED << mounts, disk_usage, path_exists, output_lines, partitions, idx,
                    real_partitions, seen_mount_stats, result, lookups >>

Continue(next, lines) ==
    /\ pc' = next
    /\ output_lines' = output_lines \o lines
    /\ UNCHANGED << mounts, disk_usage, path_exists, partitions, idx,
                    real_partitions, seen_mount_stats, result, lookups, raised_by >>

\* Lines 64-65.
SystemInfo ==
    /\ pc = "system_info"
    /\ \E outcome \in {"ok", "boot_time", "uname", "python_version", "gethostname"} :
          IF outcome = "ok" THEN Continue("system_load", SystemInfoLines)
          ELSE Raise(outcome)

\* Lines 68-74: only getloadavg is inside a try.
SystemLoad ==
    /\ pc = "system_load"
    /\ \E outcome \in {"ok", "cpu_count", "getloadavg"} :
          IF outcome = "ok" THEN Continue("cpu_info", LoadLines \o CpuCoresLines)
          ELSE IF outcome = "getloadavg"
               THEN Continue("cpu_info", LoadUnavailableLines \o CpuCoresLines)
               ELSE Raise(outcome)

\* Lines 77-79: cpu_freq() may return None.
CpuInfo ==
    /\ pc = "cpu_info"
    /\ \E outcome \in {"ok", "none", "cpu_freq", "cpu_percent", "pids"} :
          IF outcome \in {"ok", "none"} THEN Continue("memory_info", CpuInfoLines(outcome))
          ELSE Raise(outcome)

\* Lines 82-86.
MemoryInfo ==
    /\ pc = "memory_info"
    /\ \E outcome \in {"enabled", "disabled", "virtual_memory", "swap_memory"} :
          IF outcome \in {"enabled", "disabled"}
          THEN Continue("disk_partitions", MemoryLines(outcome))
          ELSE Raise(outcome)

\* Lines 89-96.
DiskPartitions ==
    /\ pc = "disk_partitions"
    /\ \E outcome \in {"ok", "disk_partitions"} :
          IF outcome = "ok"
          THEN /\ pc' = "loop"
               /\ output_lines' = Append(output_lines, DiskHeaderLine)
               /\ partitions' = mounts
               /\ idx' = 0
               /\ real_partitions' = << >>
               /\ seen_mount_stats' = << >>
               /\ UNCHANGED << mounts, disk_usage, path_exists, result, lookups,
                               raised_by >>
          ELSE Raise(outcome)

\* Lines 98-134: one iteration of the for loop.
LoopIter ==
    /\ pc = "loop"
    /\ idx < Len(partitions)
    /\ LET part == partitions[idx + 1]
           st == Body([real |-> real_partitions, seen |-> seen_mount_stats], part)
           called == ~ IsSkipped(part)
           failed == called /\ ~ disk_usage[part.mountpoint].ok
       IN  /\ idx' = idx + 1
           /\ real_partitions' = st.real
           /\ seen_mount_stats' = st.seen
           /\ lookups' = IF called THEN lookups \cup {idx + 1} ELSE lookups
           /\ pc' = IF failed THEN ExceptHandler ELSE "loop"
    /\ UNCHANGED << mounts, disk_usage, path_exists, output_lines, partitions, result,
                    raised_by >>

\* Line 137, when the loop is exhausted.
Sort ==
    /\ pc = "loop"
    /\ idx = Len(partitions)
    /\ real_partitions' = SortByMount(real_partitions)
    /\ pc' = "format"
    /\ UNCHANGED << mounts, disk_usage, path_exists, output_lines, partitions, idx,
                    seen_mount_stats, result, lookups, raised_by >>

\* Lines 140-156.
Format ==
    /\ pc = "format"
    /\ output_lines' = output_lines \o DiskLines(real_partitions) \o << ClosingLine >>
    /\ pc' = "returned"
    /\ UNCHANGED << mounts, disk_usage, path_exists, partitions, idx, real_partitions,
                    seen_mount_stats, result, lookups, raised_by >>

\* Lines 240-246 of generate_status_image_local_path, after the call returned.
ReturnText ==
    /\ pc = "returned"
    /\ result' = IF output_lines = << >> THEN [value |-> "None", text |-> << >>]
                  ELSE [value |-> "str", text |-> Join(output_lines)]
    /\ pc' = "done"
    /\ UNCHANGED << mounts, disk_usage, path_exists, output_lines, partitions, idx,
                    real_partitions, seen_mount_stats, lookups, raised_by >>

---------------------------------------------------------------------------
(* The mount tables the specifications draw from. *)

P_root == Part("/dev/sda1", "/", "ext4")
P_home == Part("/dev/sda2", "/home", "ext4")
P_var == Part("/dev/sda3", "/var", "ext4")
P_data == Part("/dev/sdb1", "/data", "ext4")
P_bind == Part("/dev/sdb1", "/mnt/data/bind", "ext4")

P_loop == Part("/dev/loop0", "/", "ext4")
P_squashfs == Part("/dev/sdc1", "/", "squashfs")
P_tmpfs == Part("/dev/sdc2", "/", "tmpfs")
P_iso9660 == Part("/dev/sr0", "/", "iso9660")
P_etc == Part("/dev/sda1", "/etc/hosts", "ext4")
P_proc == Part("/dev/sda1", "/proc/mounted-extra", "ext4")
P_sys == Part("/dev/sda1", "/sys/fs", "ext4")
P_run == Part("/dev/sda1", "/run/lock", "ext4")
P_dev == Part("/dev/sda1", "/dev/shm", "ext4")

DiskPool == {P_root, P_home, P_var, P_data, P_bind, P_loop}
DiskUsages ==
    {LookupError, Usage(Bytes(2, 0), Bytes(1, 0)), Usage(Bytes(2, 0), Bytes(0, GiB \div 2))}

ThresholdPool == {P_root, P_data, P_bind}
ThresholdUsages ==
    {Usage(Bytes(0, 100), Bytes(0, 50)), Usage(Bytes(0, GiB \div 2), Bytes(0, 50)),
     Usage(Bytes(0, GiB - 1), Bytes(0, 50)), Usage(Bytes(1, 0), Bytes(0, 50))}

FilterPool ==
    {P_home, P_bind, P_loop, P_squashfs, P_tmpfs, P_iso9660,
     P_etc, P_proc, P_sys, P_run, P_dev}
FilterUsages == {Usage(Bytes(5, 0), Bytes(1, 0))}

ReportPool == {P_root, P_home, P_bind}
ReportUsages ==
    {LookupError, Usage(Bytes(2, 0), Bytes(1, 0)), Usage(Bytes(3, 0), Bytes(1, 0))}

\* The platform: a mount table of at most n entries of `pool`, a usage
\* lookup and an existence test on its mount points.
Platform(pool, n, usages, existence) ==
    /\ mounts \in BoundedSeq(pool, n)
    /\ disk_usage \in [MountPointsOf(mounts) -> usages]
    /\ path_exists \in [MountPointsOf(mounts) -> existence]

\* generate_status_image_local_path has just called get_system_status_text.
Called ==
    /\ pc = "system_info"
    /\ output_lines = << >>
    /\ partitions = << >>
    /\ idx = 0
    /\ real_partitions = << >>
    /\ seen_mount_stats = << >>
    /\ result = [value |-> "unset", text |-> << >>]
    /\ lookups = {}
    /\ raised_by = "none"

\* get_system_status_text at line 98, every platform call before it having
\* succeeded (load average read, CPU frequency known, swap enabled).
AtLoop ==
    /\ pc = "loop"
    /\ output_lines = SystemInfoLines \o LoadLines \o CpuCoresLines
                          \o CpuInfoLines("ok") \o MemoryLines("enabled")
                          \o << DiskHeaderLine >>
    /\ partitions = mounts
    /\ idx = 0
    /\ real_partitions = << >>
    /\ seen_mount_stats = << >>
    /\ result = [value |-> "unset", text |-> << >>]
    /\ lookups = {}
    /\ raised_by = "none"

Init == Platform(ReportPool, MaxMounts, ReportUsages, {TRUE}) /\ Called

Next ==
    \/ SystemInfo
    \/ SystemLoad
    \/ CpuInfo
    \/ MemoryInfo
    \/ DiskPartitions
    \/ LoopIter
    \/ Sort
    \/ Format
    \/ ReturnText

Spec == Init /\ [][Next]_vars

\* The disk section alone.
NextDisk == LoopIter \/ Sort \/ Format \/ ReturnText

InitDisk == Platform(DiskPool, MaxMounts, DiskUsages, {TRUE}) /\ AtLoop
SpecDisk == InitDisk /\ [][NextDisk]_vars

InitThreshold == Platform(ThresholdPool, MaxMounts, ThresholdUsages, {TRUE}) /\ AtLoop
SpecThreshold == InitThreshold /\ [][NextDisk]_vars

InitFilter == Platform(FilterPool, MaxFilterMounts, FilterUsages, BOOLEAN) /\ AtLoop
SpecFilter == InitFilter /\ [][NextDisk]_vars

---------------------------------------------------------------------------
(* Vocabulary of the properties, stated on the platform's values and the   *)
(* program's variables, not on the operators of the loop.                  *)

AfterSort == pc \in {"format", "returned", "done"}

MountOf(p) == p[1]
KeyIn(p) == << p[2].total, p[2].used >>
MountPointsIn(real) == { MountOf(real[j]) : j \in 1..Len(real) }
KeysIn(real) == { KeyIn(real[j]) : j \in 1..Len(real) }

\* The filtering stage excludes the mount.
Excluded(part) ==
    \/ \E i \in 1..(Len(part.device) - 3) : SubSeq(part.device, i, i + 3) = "loop"
    \/ part.fstype = "squashfs" \/ part.fstype = "tmpfs" \/ part.fstype = "iso9660"
    \/ path_exists[part.mountpoint] = FALSE
    \/ \E prefix \in {"/etc/", "/proc/", "/sys/", "/run/", "/dev/"} :
          /\ Len(part.mountpoint) >= Len(prefix)
          /\ SubSeq(part.mountpoint, 1, Len(prefix)) = prefix

Sample(part) == disk_usage[part.mountpoint]
SampleKey(part) == << Sample(part).total, Sample(part).used >>

\* The mount passes the filter, its lookup succeeds, its total is >= 2^30.
Survives(part) ==
    /\ ~ Excluded(part)
    /\ Sample(part).ok
    /\ Sample(part).total.gib >= 1

\* The mounts among the first n that survive and hold `key`.
Holders(key, n) ==
    { i \in 1..n : Survives(partitions[i]) /\ SampleKey(partitions[i]) = key }

\* Of those, the earliest of minimum mount-point length.
Winner(key, n) ==
    LET H == Holders(key, n)
        shortest == { i \in H : \A h \in H :
                         Len(partitions[i].mountpoint) <= Len(partitions[h].mountpoint) }
    IN  CHOOSE i \in shortest : \A h \in shortest : i <= h

Ascending(real) ==
    \A j \in 1..(Len(real) - 1) : StrLess(MountOf(real[j]), MountOf(real[j + 1]))

---------------------------------------------------------------------------
(* C1 *)

\* C1: the disk list never holds two entries with equal (total, used)
\* pairs: not after any iteration of the loop, not after the sort.
C1_DistinctKeys ==
    \A i, j \in 1..Len(real_partitions) :
        i # j => KeyIn(real_partitions[i]) # KeyIn(real_partitions[j])

\* An iteration has replaced an earlier entry by a shorter-path duplicate,
\* and the list holds two entries.
C1_Witness ==
    /\ pc = "loop"
    /\ Len(real_partitions) = 2
    /\ \E i, j \in 1..idx :
          /\ i < j
          /\ Survives(partitions[i]) /\ Survives(partitions[j])
          /\ SampleKey(partitions[i]) = SampleKey(partitions[j])
          /\ Len(partitions[j].mountpoint) < Len(partitions[i].mountpoint)
          /\ partitions[j].mountpoint \in MountPointsIn(real_partitions)
          /\ partitions[i].mountpoint \notin MountPointsIn(real_partitions)

---------------------------------------------------------------------------
(* C2 *)

\* The mount table is /data and /mnt/data/bind, in either order, neither
\* excluded by the filter, both lookups returning `sample`.
C2_Given(sample) ==
    /\ Len(partitions) = 2
    /\ MountPointsOf(partitions) = {"/data", "/mnt/data/bind"}
    /\ \A i \in 1..2 : ~ Excluded(partitions[i]) /\ Sample(partitions[i]) = sample

\* C2 as stated: with both mounts reporting (total = 100, used = 50) the
\* list is exactly one entry, "/data".
C2_AsStated ==
    (AfterSort /\ C2_Given(Usage(Bytes(0, 100), Bytes(0, 50)))) =>
        (Len(real_partitions) = 1 /\ MountOf(real_partitions[1]) = "/data")

\* C2 amended: with both mounts reporting the same sample whose total is at
\* least 2^30 the list is exactly one entry, "/data", whichever comes
\* first; with (total = 100, used = 50) the list is empty.
C2_ShorterPathKept ==
    AfterSort =>
        /\ \A sample \in ThresholdUsages :
              (C2_Given(sample) /\ sample.total.gib >= 1) =>
                  (Len(real_partitions) = 1 /\ MountOf(real_partitions[1]) = "/data")
        /\ C2_Given(Usage(Bytes(0, 100), Bytes(0, 50))) => real_partitions = << >>

\* /mnt/data/bind came first and was replaced by /data.
C2_Witness ==
    /\ AfterSort
    /\ C2_Given(Usage(Bytes(1, 0), Bytes(0, 50)))
    /\ partitions[1].mountpoint = "/mnt/data/bind"
    /\ MountPointsIn(real_partitions) = {"/data"}

---------------------------------------------------------------------------
(* C3 *)

---------------------------------------------------------------------------
(* C4 *)

\* Another surviving mount holds the key of mount i and is preferred to
\* it: a shorter mount point, or an equally long other one listed earlier.
Rival(i) ==
    \E j \in 1..Len(partitions) :
        /\ Survives(partitions[j])
        /\ SampleKey(partitions[j]) = SampleKey(partitions[i])
        /\ partitions[j].mountpoint # partitions[i].mountpoint
        /\ \/ Len(partitions[j].mountpoint) < Len(partitions[i].mountpoint)
           \/ /\ Len(partitions[j].mountpoint) = Len(partitions[i].mountpoint)
              /\ j < i

TwoGiBMount(i) ==
    /\ ~ Excluded(partitions[i])
    /\ Sample(partitions[i]).ok
    /\ Sample(partitions[i]).total = Bytes(2, 0)

\* C4 as stated: a mount of 2 GiB that no filter excludes and whose lookup
\* succeeds is in the list, whatever the other mounts are.
C4_AsStated ==
    AfterSort =>
        \A i \in 1..Len(partitions) :
            TwoGiBMount(i) => partitions[i].mountpoint \in MountPointsIn(real_partitions)

\* C4 amended: such a mount is in the list unless another surviving mount
\* with the same (total, used) has a shorter mount point, or an equally
\* long one and comes earlier; its key is in the list in every case.
C4_PresentUnlessDuplicate ==
    AfterSort =>
        \A i \in 1..Len(partitions) :
            TwoGiBMount(i) =>
                /\ SampleKey(partitions[i]) \in KeysIn(real_partitions)
                /\ ~ Rival(i) => partitions[i].mountpoint \in MountPointsIn(real_partitions)

\* Three mounts of 2 GiB: two share a key, and the longer of them is the
\* only one missing from the list.
C4_Witness ==
    /\ AfterSort
    /\ Len(partitions) = 3
    /\ \A i \in 1..3 : TwoGiBMount(i)
    /\ \E i \in 1..3 :
          /\ Rival(i)
          /\ MountPointsIn(real_partitions)
                 = MountPointsOf(partitions) \ {partitions[i].mountpoint}
    /\ Len(real_partitions) = 2

---------------------------------------------------------------------------
(* C5 *)

\* The consumed mounts that the filtering stage does not exclude, in order.
RECURSIVE Kept(_)
Kept(parts) ==
    IF parts = << >> THEN << >>
    ELSE LET front == Kept(SubSeq(parts, 1, Len(parts) - 1))
             last == parts[Len(parts)]
         IN  IF Excluded(last) THEN front ELSE Append(front, last)

\* C5: the usage of an excluded mount is never looked up, every entry of
\* the list is the mount point of a mount that is not excluded, and the
\* list and the key map are those the loop builds from the mount table with
\* the excluded mounts taken out, so an excluded mount displaces nothing.
C5_ExcludedNeverSeen ==
    /\ \A i \in lookups : ~ Excluded(partitions[i])
    /\ \A j \in 1..Len(real_partitions) :
          \E i \in 1..idx :
              /\ ~ Excluded(partitions[i])
              /\ partitions[i].mountpoint = MountOf(real_partitions[j])
    /\ pc = "loop" =>
          LET st == RunLoop(Kept(SubSeq(partitions, 1, idx)))
          IN  real_partitions = st.real /\ seen_mount_stats = st.seen

\* /mnt/data/bind is in the list, and an excluded mount that exists, has a
\* shorter mount point and reports the same 5 GiB sample was consumed after
\* it.
C5_Witness ==
    /\ pc = "loop" /\ idx = 2
    /\ MountPointsIn(real_partitions) = {"/mnt/data/bind"}
    /\ partitions[1] = P_bind
    /\ Excluded(partitions[2])
    /\ path_exists[partitions[2].mountpoint]
    /\ Sample(partitions[2]) = Usage(Bytes(5, 0), Bytes(1, 0))
    /\ Len(partitions[2].mountpoint) < Len("/mnt/data/bind")

---------------------------------------------------------------------------
(* C6 *)

---------------------------------------------------------------------------
(* C7 *)

\* The mount's lookup is made and fails.
LookupFails(part) == ~ Excluded(part) /\ ~ Sample(part).ok

RECURSIVE WithoutFailing(_)
WithoutFailing(parts) ==
    IF parts = << >> THEN << >>
    ELSE LET front == WithoutFailing(SubSeq(parts, 1, Len(parts) - 1))
             last == parts[Len(parts)]
         IN  IF LookupFails(last) THEN front ELSE Append(front, last)

\* C7: a failed lookup never leaves get_system_status_text; the loop goes
\* on, and the list is the one built from the same table with the failing
\* mounts taken out (after the loop: that list sorted).
C7_FailedLookupDropped ==
    /\ pc # "raised"
    /\ pc = "loop" =>
          real_partitions = RunLoop(WithoutFailing(SubSeq(partitions, 1, idx))).real
    /\ AfterSort =>
          real_partitions = SortByMount(RunLoop(WithoutFailing(partitions)).real)

\* Three mounts with distinct mount points, the second lookup fails, the
\* other two have distinct keys: the list is exactly those two.
C7_Witness ==
    /\ AfterSort
    /\ Len(partitions) = 3
    /\ LookupFails(partitions[2])
    /\ Survives(partitions[1]) /\ Survives(partitions[3])
    /\ SampleKey(partitions[1]) # SampleKey(partitions[3])
    /\ MountPointsIn(real_partitions)
           = {partitions[1].mountpoint, partitions[3].mountpoint}
    /\ Len(real_partitions) = 2

---------------------------------------------------------------------------
(* C8 *)

\* C8: no failure of a platform call aborts the report: the call never
\* ends by an exception.
C8_NoFailureAborts == pc # "raised"

---------------------------------------------------------------------------
(* C9 *)

\* The lines after the disk header and before the last line.
DiskSection ==
    LET h == CHOOSE k \in 1..Len(output_lines) : output_lines[k] = DiskHeaderLine
    IN  SubSeq(output_lines, h + 1, Len(output_lines) - 1)

\* C9: in the returned report the last line is the closing line and the
\* disk header occurs once; the disk section is the single "no data" line
\* when the list is empty, and otherwise 4n + (n - 1) lines: for the k-th
\* disk the lines mount, total, used, free at 5(k-1)+1 .. 5(k-1)+4, and one
\* separator after each disk but the last.
C9_DiskSection ==
    pc \in {"returned", "done"} =>
        LET n == Len(real_partitions)
            sec == DiskSection
        IN  /\ output_lines[Len(output_lines)] = [kind |-> "closing", arg |-> ""]
            /\ Cardinality({ k \in 1..Len(output_lines) :
                                 output_lines[k].kind = "disk_header" }) = 1
            /\ n = 0 => sec = << [kind |-> "no_disk", arg |-> ""] >>
            /\ n >= 1 =>
                  /\ Len(sec) = 4 * n + (n - 1)
                  /\ \A k \in 1..n :
                        LET m == MountOf(real_partitions[k])
                            at == 5 * (k - 1)
                        IN  /\ sec[at + 1] = [kind |-> "mount", arg |-> m]
                            /\ sec[at + 2] = [kind |-> "disk_total", arg |-> m]
                            /\ sec[at + 3] = [kind |-> "disk_used", arg |-> m]
                            /\ sec[at + 4] = [kind |-> "disk_free", arg |-> m]
                            /\ k < n => sec[at + 5] = [kind |-> "bar", arg |-> ""]

\* A report of two disks was returned after the load average had failed.
C9_Witness ==
    /\ pc = "done"
    /\ Len(real_partitions) = 2
    /\ Len(DiskSection) = 9
    /\ \E k \in 1..Len(output_lines) : output_lines[k].kind = "load_unavailable"

---------------------------------------------------------------------------
(* C10 *)

\* Every key a consumed surviving mount holds has exactly one entry, the
\* mount point of its winner; every mount point the key map names is in the
\* list, under that key.
C10_OnePerKey ==
    /\ \A i \in 1..idx :
          Survives(partitions[i]) =>
              LET key == SampleKey(partitions[i])
                  at == { j \in 1..Len(real_partitions) : KeyIn(real_partitions[j]) = key }
              IN  /\ Cardinality(at) = 1
                  /\ \A j \in at :
                        MountOf(real_partitions[j]) = partitions[Winner(key, idx)].mountpoint
    /\ \A key \in DOMAIN seen_mount_stats :
          \E j \in 1..Len(real_partitions) :
              /\ MountOf(real_partitions[j]) = seen_mount_stats[key]
              /\ KeyIn(real_partitions[j]) = key

\* An iteration on a mount whose key is already in the list leaves the
\* length of the list alone and changes at most the entry of that key, in
\* its place.
C10_InPlace ==
    (idx' = idx + 1 /\ Survives(partitions[idx'])
        /\ SampleKey(partitions[idx']) \in KeysIn(real_partitions)) =>
            /\ Len(real_partitions') = Len(real_partitions)
            /\ \A j \in 1..Len(real_partitions) :
                  \/ real_partitions'[j] = real_partitions[j]
                  \/ /\ KeyIn(real_partitions[j]) = SampleKey(partitions[idx'])
                     /\ KeyIn(real_partitions'[j]) = SampleKey(partitions[idx'])
                     /\ MountOf(real_partitions'[j]) = partitions[idx'].mountpoint

\* C10: one entry per surviving key, that of the earliest mount of minimum
\* mount-point length; a replacement overwrites in place, the list never
\* grows on a duplicate key, and the key map names mount points of the list.
C10_ShortestEarliest == [] C10_OnePerKey /\ [][C10_InPlace]_vars

\* Three surviving mounts share a key: the second, as long as the first and
\* another mount point, was discarded; the third, shorter, replaced the first.
C10_Witness ==
    /\ pc = "loop" /\ idx = 3
    /\ Survives(partitions[1]) /\ Survives(partitions[2]) /\ Survives(partitions[3])
    /\ Len(real_partitions) = 1
    /\ Len(partitions[3].mountpoint) < Len(partitions[1].mountpoint)
    /\ Len(partitions[2].mountpoint) = Len(partitions[1].mountpoint)
    /\ partitions[2].mountpoint # partitions[1].mountpoint
    /\ MountOf(real_partitions[1]) = partitions[3].mountpoint

===========================================================================
